---- MODULE Spec2Model ----
(***************************************************************************)
(* Model of the adaptive difficulty controller (adaptive_engine.py), of    *)
(* the performance log it is fed from (tracker.py) and of the session loop *)
(* that drives both (main.py).                                             *)
(*                                                                         *)
(* Numbers.  Python computes accuracy and avg_time in IEEE-754 doubles.    *)
(* Times are modelled as whole seconds, so np.mean is one correctly        *)
(* rounded division of an exact sum: it is kept as the reduced fraction    *)
(* num/den, and its comparisons with 10, 12, 18 and 20 are the exact ones. *)
(* accuracy = (sum / len) * 100 rounds twice (the quotient, then the       *)
(* product).  It is kept as the reduced exact fraction num/den together    *)
(* with ulp, the sign of the rounding error of the double when the exact   *)
(* value is a whole number (a double whose exact value is not whole never  *)
(* crosses a whole threshold).                                             *)
(***************************************************************************)
EXTENDS Integers, Sequences, FiniteSets, TLC

VARIABLES
    engines,    \* controller instance -> [config, attempt_count, history]
    call,       \* controller instance -> its latest call (arguments, result)
    returned,   \* the list object a caller got from get_adaptation_history
    run,        \* AdaptiveLearningApp.run: [pc, puzzle_count, current_difficulty]
    tracker     \* PerformanceTracker: [records]

vars == <<engines, call, returned, run, tracker>>

----------------------------------------------------------------------------
(* Bounds of the model *)

\* longest correctness window enumerated exhaustively
MaxLen == 3
\* longest time window enumerated
MaxTimes == 2
\* calls of get_next_difficulty per controller between two resets
MaxAttempts == 2
\* answers the learner gives as a number in one session
MaxAnswered == 6

----------------------------------------------------------------------------
(* Arithmetic *)

\* variant of Min: the level wraps round past the bound
MinWrap(a, b) == a % (b + 1)

Min(a, b) == IF a <= b THEN a ELSE b

Max(a, b) == IF a >= b THEN a ELSE b

RECURSIVE GCD(_, _)
GCD(a, b) == IF b = 0 THEN a ELSE GCD(b, a % b)

RECURSIVE Pow2(_)
Pow2(n) == IF n = 0 THEN 1 ELSE 2 * Pow2(n - 1)

\* 2^s mod q
RECURSIVE PowMod2(_, _)
PowMod2(s, q) == IF s = 0 THEN 1 % q ELSE (2 * PowMod2(s - 1, q)) % q

\* for 0 < p < q: the a >= 1 with 2^-a <= p/q < 2^(1-a)
RECURSIVE BinaryExponent(_, _, _)
BinaryExponent(p, q, a) ==
    IF p * Pow2(a) >= q THEN a ELSE BinaryExponent(p, q, a + 1)

\* for t >= 1: the e with 2^e <= t < 2^(e+1)
RECURSIVE FloorLog2(_, _)
FloorLog2(t, e) == IF Pow2(e + 1) > t THEN e ELSE FloorLog2(t, e + 1)

RECURSIVE Sum(_)
Sum(s) == IF s = <<>> THEN 0 ELSE Head(s) + Sum(Tail(s))

\* sum() of a list of bools: the number of True
RECURSIVE SumBool(_)
SumBool(s) ==
    IF s = <<>> THEN 0 ELSE (IF Head(s) THEN 1 ELSE 0) + SumBool(Tail(s))

\* s[-n:] for n >= 1
LastN(s, n) ==
    IF Len(s) <= n THEN s ELSE SubSeq(s, Len(s) - n + 1, Len(s))

(* The sign of fl(fl(k/n) * 100) - 100k/n when 100k/n is a whole number T,  *)
(* and 0 when it is not.  With p/q = k/n reduced, 2^-a <= p/q < 2^(1-a) and *)
(* s = 52 + a, the quotient rounds to M * 2^-s with M the integer nearest   *)
(* to p * 2^s / q, so fl(k/n) = p/q + d / (q * 2^s) with d the signed       *)
(* distance of p * 2^s to the nearest multiple of q.  The product           *)
(* T + 100 d / (q * 2^s) then rounds away from T exactly when it is more    *)
(* than half a unit in the last place of T away from it.                    *)
RoundingSign(k, n) ==
    IF k = 0 \/ k = n THEN 0
    ELSE LET g == GCD(k, n)
             p == k \div g
             q == n \div g
         IN  IF (100 * p) % q # 0 THEN 0
             ELSE LET a == BinaryExponent(p, q, 1)
                      R == (p * PowMod2(52 + a, q)) % q
                      d == IF 2 * R <= q THEN 0 - R ELSE q - R
                      T == (100 * p) \div q
                      e == FloorLog2(T, 0)
                      below == IF T = Pow2(e) THEN 400 ELSE 200
                  IN  IF d > 0 /\ 200 * d > q * Pow2(a + e) THEN 1
                      ELSE IF d < 0 /\ below * (0 - d) > q * Pow2(a + e) THEN -1
                      ELSE 0

\* the int 0 stored for an empty window
ZeroAccuracy == [num |-> 0, den |-> 1, ulp |-> 0]

ZeroTime == [num |-> 0, den |-> 1]

\* float('inf')
Inf == [num |-> 1, den |-> 0]

\* (sum(recent_performance) / len(recent_performance)) * 100
Accuracy(recent_performance) ==
    LET k == SumBool(recent_performance)
        n == Len(recent_performance)
        g == GCD(100 * k, n)
    IN  [num |-> (100 * k) \div g, den |-> n \div g, ulp |-> RoundingSign(k, n)]

\* np.mean(recent_times)
Mean(recent_times) ==
    LET s == Sum(recent_times)
        n == Len(recent_times)
        g == GCD(s, n)
    IN  [num |-> s \div g, den |-> n \div g]

\* accuracy >= t, accuracy <= t, accuracy > t, accuracy < t
AccGE(x, t) == x.num > t * x.den \/ (x.num = t * x.den /\ x.ulp >= 0)

AccLE(x, t) == x.num < t * x.den \/ (x.num = t * x.den /\ x.ulp <= 0)

AccGT(x, t) == x.num > t * x.den \/ (x.num = t * x.den /\ x.ulp > 0)

AccLT(x, t) == x.num < t * x.den \/ (x.num = t * x.den /\ x.ulp < 0)

\* avg_time < t, avg_time > t (den = 0 is infinity)
TimeLT(x, t) == x.den # 0 /\ x.num < t * x.den

TimeGT(x, t) == x.den = 0 \/ x.num > t * x.den

----------------------------------------------------------------------------
(* adaptive_engine.py *)

DIFFICULTY_LEVELS == <<"EASY", "MEDIUM", "HARD">>

Levels == {DIFFICULTY_LEVELS[i] : i \in 1..3}

DIFFICULTY_MAP == [d \in Levels |-> CHOOSE l \in 0..2 : DIFFICULTY_LEVELS[l + 1] = d]

REVERSE_MAP == [l \in 0..2 |-> DIFFICULTY_LEVELS[l + 1]]

AdaptationConfig(high, low, min_attempts) ==
    [rule_based_thresholds |-> [high |-> high, low |-> low],
     lookback_window |-> 5,
     min_attempts_before_change |-> min_attempts]

DefaultConfig == AdaptationConfig(75, 50, 3)

\* AdaptiveEngine.__init__: no field of the configuration is examined
NewEngine(config) == [config |-> config, attempt_count |-> 0, history |-> <<>>]

\* variant of TooFew: the bound is off by one
TooFewOffByOne(self, recent_performance) ==
    Len(recent_performance) < self.config.min_attempts_before_change - 1

\* variant of TooFew: the calls made are counted, not the window
TooFewByCount(self, recent_performance) ==
    self.attempt_count < self.config.min_attempts_before_change

\* the window is shorter than min_attempts_before_change
TooFew(self, recent_performance) ==
    Len(recent_performance) < self.config.min_attempts_before_change

AdaptRuleBased(self, current_difficulty, recent_performance, recent_times) ==
    IF recent_performance = <<>> THEN current_difficulty
    ELSE IF TooFew(self, recent_performance)
    THEN current_difficulty
    ELSE LET accuracy == Accuracy(recent_performance)
             avg_time == IF recent_times # <<>> THEN Mean(recent_times) ELSE Inf
             thresholds == self.config.rule_based_thresholds
             current_level == DIFFICULTY_MAP[current_difficulty]
             next_level ==
                 IF AccGE(accuracy, thresholds.high) /\ TimeLT(avg_time, 10)
                 THEN Min(current_level + 1, 2)
                 ELSE IF AccLE(accuracy, thresholds.low) \/ TimeGT(avg_time, 20)
                 THEN Max(current_level - 1, 0)
                 ELSE IF AccGT(accuracy, 65) /\ TimeLT(avg_time, 12)
                 THEN Min(current_level + 1, 2)
                 ELSE IF AccLT(accuracy, 45) \/ TimeGT(avg_time, 18)
                 THEN Max(current_level - 1, 0)
                 ELSE current_level
         IN  REVERSE_MAP[next_level]

\* variant of HistoryEntry: the rules' infinite avg_time is what is stored
HistoryEntryInf(attempt, from, to, recent_performance, recent_times) ==
    [attempt |-> attempt,
     from |-> from,
     to |-> to,
     accuracy |-> IF recent_performance # <<>>
                  THEN Accuracy(recent_performance) ELSE ZeroAccuracy,
     avg_time |-> IF recent_times # <<>> THEN Mean(recent_times) ELSE Inf]

\* the dict get_next_difficulty appends to self.history
HistoryEntry(attempt, from, to, recent_performance, recent_times) ==
    [attempt |-> attempt,
     from |-> from,
     to |-> to,
     accuracy |-> IF recent_performance # <<>>
                  THEN Accuracy(recent_performance) ELSE ZeroAccuracy,
     avg_time |-> IF recent_times # <<>> THEN Mean(recent_times) ELSE ZeroTime]

\* self after self.attempt_count += 1
Counted(self) == [self EXCEPT !.attempt_count = @ + 1]

\* the value get_next_difficulty returns
NextDifficulty(self, current_difficulty, recent_performance, recent_times) ==
    AdaptRuleBased(Counted(self), current_difficulty, recent_performance,
                   recent_times)

\* variant of Decided: a record is kept only when the difficulty changes
DecidedOnChange(self, current_difficulty, recent_performance, recent_times) ==
    LET counted == Counted(self)
        next_diff == AdaptRuleBased(counted, current_difficulty,
                                    recent_performance, recent_times)
    IN  IF next_diff = current_difficulty THEN counted
        ELSE [counted EXCEPT !.history =
                 Append(@, HistoryEntry(counted.attempt_count, current_difficulty,
                                        next_diff, recent_performance,
                                        recent_times))]

\* self after get_next_difficulty
Decided(self, current_difficulty, recent_performance, recent_times) ==
    LET counted == Counted(self)
        next_diff == AdaptRuleBased(counted, current_difficulty,
                                    recent_performance, recent_times)
    IN  [counted EXCEPT !.history =
            Append(@, HistoryEntry(counted.attempt_count, current_difficulty,
                                   next_diff, recent_performance, recent_times))]

\* variant of Cleared: the count is kept
ClearedKeepCount(self) == [self EXCEPT !.history = <<>>]

\* self after reset_history
Cleared(self) == [self EXCEPT !.history = <<>>, !.attempt_count = 0]

\* the list get_adaptation_history returns: self.history itself, not a copy
AdaptationHistory(self) == self.history

----------------------------------------------------------------------------
(* tracker.py *)

NewTracker == [records |-> <<>>]

\* PerformanceRecord, with the fields that are read back while the session
\* runs (puzzle_id, user_answer, correct_answer and timestamp are only stored)
PerformanceRecord(puzzle_id, difficulty, correct, time_taken) ==
    [difficulty |-> difficulty, correct |-> correct, time_taken |-> time_taken]

\* self after log_attempt
Logged(self, puzzle_id, difficulty, correct, time_taken) ==
    [self EXCEPT !.records =
        Append(@, PerformanceRecord(puzzle_id, difficulty, correct, time_taken))]

\* variant of GetPerformanceTrend: one record too many
GetPerformanceTrendLong(self, window_size) ==
    LET recent == LastN(self.records, window_size + 1)
    IN  [i \in 1..Len(recent) |-> recent[i].correct]

GetPerformanceTrend(self, window_size) ==
    LET recent == LastN(self.records, window_size)
    IN  [i \in 1..Len(recent) |-> recent[i].correct]

\* [r.time_taken for r in tracker.records[-5:]]
RecentTimes(self) ==
    LET recent == LastN(self.records, 5)
    IN  [i \in 1..Len(recent) |-> recent[i].time_taken]

----------------------------------------------------------------------------
(* main.py *)

max_puzzles == 10

trend_window == 5

\* the configuration run() builds
RunConfig == AdaptationConfig(75, 50, 2)

----------------------------------------------------------------------------
(* State outside the session: the variables a specification does not use *)

NoCall ==
    [op |-> "none", current_difficulty |-> "", recent_performance |-> <<>>,
     recent_times |-> <<>>, ret |-> "", before |-> 0]

NoList == [state |-> "none", of |-> 0, items |-> <<>>]

Idle == [pc |-> "idle", puzzle_count |-> 0, current_difficulty |-> "EASY"]

----------------------------------------------------------------------------
(* Operations of the controller *)

\* engine i: get_next_difficulty(current_difficulty, recent_performance, recent_times)
GetNextDifficulty(i, current_difficulty, recent_performance, recent_times) ==
    /\ engines' = [engines EXCEPT ![i] =
           Decided(@, current_difficulty, recent_performance, recent_times)]
    /\ call' = [call EXCEPT ![i] =
           [op |-> "get_next_difficulty",
            current_difficulty |-> current_difficulty,
            recent_performance |-> recent_performance,
            recent_times |-> recent_times,
            ret |-> NextDifficulty(engines[i], current_difficulty,
                                   recent_performance, recent_times),
            before |-> engines[i].attempt_count]]

\* engine i: reset_history().  self.history is bound to a new list: a list
\* handed out earlier stays with its holder, with the records it had.
ResetHistory(i) ==
    /\ engines' = [engines EXCEPT ![i] = Cleared(@)]
    /\ call' = [call EXCEPT ![i] =
           [NoCall EXCEPT !.op = "reset_history",
                          !.before = engines[i].attempt_count]]
    /\ returned' = IF returned.state = "alias" /\ returned.of = i
                   THEN [state |-> "detached", of |-> i,
                         items |-> AdaptationHistory(engines[i])]
                   ELSE returned

\* engine i: get_adaptation_history().  The caller holds the controller's list.
GetAdaptationHistory(i) ==
    /\ call' = [call EXCEPT ![i] =
           [NoCall EXCEPT !.op = "get_adaptation_history",
                          !.before = engines[i].attempt_count]]
    /\ returned' = [state |-> "alias", of |-> i, items |-> <<>>]
    /\ UNCHANGED engines

\* what the caller's list holds
ReturnedItems ==
    IF returned.state = "alias" THEN AdaptationHistory(engines[returned.of])
    ELSE returned.items

\* the caller's list becomes items: the controller's own list when it is that one
CallerWrites(items, op) ==
    /\ returned.state # "none"
    /\ IF returned.state = "alias"
       THEN /\ engines' = [engines EXCEPT ![returned.of].history = items]
            /\ UNCHANGED returned
       ELSE /\ returned' = [returned EXCEPT !.items = items]
            /\ UNCHANGED engines
    /\ call' = [call EXCEPT ![returned.of] =
           [NoCall EXCEPT !.op = op,
                          !.before = engines[returned.of].attempt_count]]

----------------------------------------------------------------------------
(* Inputs *)

BoolSeqs(n) == UNION {[1..m -> BOOLEAN] : m \in 0..n}

\* windows of 20 attempts, the shortest on which accuracy can be exactly 65 or
\* 45 (and 55): k correct answers, then 20 - k wrong ones
LongWindows == {[i \in 1..20 |-> i <= k] : k \in 0..20}

WidePerformance == BoolSeqs(MaxLen) \cup LongWindows

\* seconds: means of one or two of them fall below, on, between and above the
\* code's 10, 12, 18 and 20
TimeValues == {5, 10, 12, 18, 20, 25}

WideTimes == UNION {[1..m -> TimeValues] : m \in 0..MaxTimes}

\* valid configurations (the default, run()'s, one with other thresholds) and
\* invalid ones (low >= high, a threshold above 100, min_attempts below 1)
WideConfigs ==
    {DefaultConfig, RunConfig, AdaptationConfig(75, 55, 3),
     AdaptationConfig(50, 75, 3), AdaptationConfig(120, 50, 1),
     AdaptationConfig(75, 50, 0)}

Configs == {DefaultConfig, RunConfig}

T3 == <<TRUE, TRUE, TRUE>>

T2F == <<TRUE, TRUE, FALSE>>

\* one call for each way through get_next_difficulty: empty window, short
\* window, first rule (moving and at the top), second rule (moving and at the
\* bottom), the two middle rules, no change
SmallCalls ==
    {<<"EASY", <<>>, <<>>>>, <<"MEDIUM", <<TRUE>>, <<5>>>>,
     <<"MEDIUM", T3, <<5>>>>, <<"HARD", T3, <<5>>>>,
     <<"MEDIUM", T2F, <<>>>>, <<"EASY", T2F, <<>>>>,
     <<"MEDIUM", T2F, <<5>>>>, <<"MEDIUM", T2F, <<19>>>>,
     <<"MEDIUM", T2F, <<15>>>>}

PairCalls ==
    {<<"MEDIUM", T3, <<5>>>>, <<"MEDIUM", T2F, <<19>>>>, <<"HARD", <<TRUE>>, <<>>>>}

CallerCalls == {<<"MEDIUM", T3, <<5>>>>, <<"EASY", <<>>, <<>>>>}

\* a record of the caller's own making
Forged ==
    [attempt |-> 0, from |-> "HARD", to |-> "HARD", accuracy |-> ZeroAccuracy,
     avg_time |-> ZeroTime]

\* seconds a learner takes over an answer
AnswerTimes == {5}

----------------------------------------------------------------------------
(* The controller alone: get_next_difficulty and reset_history *)

Init ==
    /\ \E c \in Configs : engines = [i \in {1} |-> NewEngine(c)]
    /\ call = [i \in {1} |-> NoCall]
    /\ returned = NoList
    /\ run = Idle
    /\ tracker = NewTracker

Decide ==
    \E i \in DOMAIN engines, x \in SmallCalls :
        /\ engines[i].attempt_count < MaxAttempts
        /\ GetNextDifficulty(i, x[1], x[2], x[3])
        /\ UNCHANGED <<returned, run, tracker>>

Reset ==
    \E i \in DOMAIN engines :
        /\ ResetHistory(i)
        /\ UNCHANGED <<run, tracker>>

Next == Decide \/ Reset

Spec == Init /\ [][Next]_vars

----------------------------------------------------------------------------
(* One call of get_next_difficulty on a new controller, over all inputs *)

InitDecide ==
    /\ \E c \in WideConfigs : engines = [i \in {1} |-> NewEngine(c)]
    /\ call = [i \in {1} |-> NoCall]
    /\ returned = NoList
    /\ run = Idle
    /\ tracker = NewTracker

DecideOnce ==
    /\ call[1].op = "none"
    /\ \E d \in Levels, p \in WidePerformance, t \in WideTimes :
           GetNextDifficulty(1, d, p, t)
    /\ UNCHANGED <<returned, run, tracker>>

NextDecide == DecideOnce

SpecDecide == InitDecide /\ [][NextDecide]_vars

----------------------------------------------------------------------------
(* Two controllers built from the same configuration *)

InitPair ==
    /\ \E c \in Configs : engines = [i \in {1, 2} |-> NewEngine(c)]
    /\ call = [i \in {1, 2} |-> NoCall]
    /\ returned = NoList
    /\ run = Idle
    /\ tracker = NewTracker

DecidePair ==
    \E i \in DOMAIN engines, x \in PairCalls :
        /\ engines[i].attempt_count < MaxAttempts
        /\ GetNextDifficulty(i, x[1], x[2], x[3])
        /\ UNCHANGED <<returned, run, tracker>>

NextPair == DecidePair \/ Reset

SpecPair == InitPair /\ [][NextPair]_vars

----------------------------------------------------------------------------
(* The controller and a caller that keeps the list get_adaptation_history   *)
(* gave it and uses it as a Python list                                     *)

InitCaller ==
    /\ engines = [i \in {1} |-> NewEngine(DefaultConfig)]
    /\ call = [i \in {1} |-> NoCall]
    /\ returned = NoList
    /\ run = Idle
    /\ tracker = NewTracker

DecideCaller ==
    \E x \in CallerCalls :
        /\ engines[1].attempt_count < MaxAttempts
        /\ GetNextDifficulty(1, x[1], x[2], x[3])
        /\ UNCHANGED <<returned, run, tracker>>

ReadHistory ==
    /\ GetAdaptationHistory(1)
    /\ UNCHANGED <<run, tracker>>

\* returned.append(Forged)
CallerAppend ==
    /\ Len(ReturnedItems) < MaxAttempts
    /\ CallerWrites(Append(ReturnedItems, Forged), "caller_append")
    /\ UNCHANGED <<run, tracker>>

\* returned.pop()
CallerPop ==
    /\ ReturnedItems # <<>>
    /\ CallerWrites(SubSeq(ReturnedItems, 1, Len(ReturnedItems) - 1), "caller_pop")
    /\ UNCHANGED <<run, tracker>>

\* returned[0]['to'] = 'EASY'
CallerAlter ==
    /\ ReturnedItems # <<>>
    /\ CallerWrites([ReturnedItems EXCEPT ![1].to = "EASY"], "caller_alter")
    /\ UNCHANGED <<run, tracker>>

NextCaller ==
    DecideCaller \/ Reset \/ ReadHistory \/ CallerAppend \/ CallerPop \/ CallerAlter

SpecCaller == InitCaller /\ [][NextCaller]_vars

----------------------------------------------------------------------------
(* AdaptiveLearningApp.run: one action for each way through an iteration of *)
(* the main loop; every state with pc = "loop" is the top of the loop       *)

InitApp ==
    /\ engines = [i \in {1} |-> NewEngine(RunConfig)]
    /\ call = [i \in {1} |-> NoCall]
    /\ returned = NoList
    /\ \E d \in Levels :
           run = [pc |-> "loop", puzzle_count |-> 0, current_difficulty |-> d]
    /\ tracker = NewTracker

\* the answer is empty: "Please enter a number!", continue
AnswerEmpty ==
    /\ run.pc = "loop"
    /\ run.puzzle_count < max_puzzles
    /\ run' = [run EXCEPT !.puzzle_count = @ + 1]
    /\ UNCHANGED <<engines, call, returned, tracker>>

\* int(user_answer) raises ValueError: continue
AnswerInvalid ==
    /\ run.pc = "loop"
    /\ run.puzzle_count < max_puzzles
    /\ run' = [run EXCEPT !.puzzle_count = @ + 1]
    /\ UNCHANGED <<engines, call, returned, tracker>>

\* the answer is a number: log the attempt, decide, take the new difficulty
AnswerNumber ==
    \E is_correct \in BOOLEAN, elapsed_time \in AnswerTimes :
        /\ run.pc = "loop"
        /\ run.puzzle_count < max_puzzles
        /\ Len(tracker.records) < MaxAnswered
        /\ LET count == run.puzzle_count + 1
               logged == Logged(tracker, count, run.current_difficulty,
                                is_correct, elapsed_time)
               trend == GetPerformanceTrend(logged, trend_window)
               times == RecentTimes(logged)
           IN  /\ tracker' = logged
               /\ GetNextDifficulty(1, run.current_difficulty, trend, times)
               /\ run' = [run EXCEPT
                      !.puzzle_count = count,
                      !.current_difficulty =
                          NextDifficulty(engines[1], run.current_difficulty,
                                         trend, times)]
        /\ UNCHANGED returned

\* KeyboardInterrupt while the learner is asked for the answer
Interrupt ==
    /\ run.pc = "loop"
    /\ run.puzzle_count < max_puzzles
    /\ run' = [run EXCEPT !.puzzle_count = @ + 1, !.pc = "summary"]
    /\ UNCHANGED <<engines, call, returned, tracker>>

\* while puzzle_count < max_puzzles fails
LoopExit ==
    /\ run.pc = "loop"
    /\ run.puzzle_count >= max_puzzles
    /\ run' = [run EXCEPT !.pc = "summary"]
    /\ UNCHANGED <<engines, call, returned, tracker>>

NextApp == AnswerEmpty \/ AnswerInvalid \/ AnswerNumber \/ Interrupt \/ LoopExit

SpecApp == InitApp /\ [][NextApp]_vars

----------------------------------------------------------------------------
(* Vocabulary of the properties *)

Rank(d) == DIFFICULTY_MAP[d]

IsDecide(c) == c.op = "get_next_difficulty"

\* engine i has just run get_next_difficulty in this step
DecideStep(i) ==
    /\ IsDecide(call'[i])
    /\ <<engines[i], call[i]>>' # <<engines[i], call[i]>>

LastEntry(i) == engines[i].history[Len(engines[i].history)]

\* the configuration invariant: both thresholds in [0, 100], low < high,
\* min_attempts_before_change >= 1
ValidConfig(c) ==
    /\ c.rule_based_thresholds.high \in 0..100
    /\ c.rule_based_thresholds.low \in 0..100
    /\ c.rule_based_thresholds.low < c.rule_based_thresholds.high
    /\ c.min_attempts_before_change >= 1

\* the level the rules name, in exact arithmetic: acc = 100 * count / len and
\* avg = mean(t), infinite for an empty t
ReferenceLevel(c, L, perf, times) ==
    LET count == SumBool(perf)
        n == Len(perf)
        high == c.rule_based_thresholds.high
        low == c.rule_based_thresholds.low
        m == Len(times)
        total == Sum(times)
        AvgBelow(t) == m > 0 /\ total < t * m
        AvgAbove(t) == m = 0 \/ total > t * m
    IN  IF 100 * count >= high * n /\ AvgBelow(10) THEN Min(L + 1, 2)
        ELSE IF 100 * count <= low * n \/ AvgAbove(20) THEN Max(L - 1, 0)
        ELSE IF 100 * count > 65 * n /\ AvgBelow(12) THEN Min(L + 1, 2)
        ELSE IF 100 * count < 45 * n \/ AvgAbove(18) THEN Max(L - 1, 0)
        ELSE L

\* the rules, applied where no bound is in the way, move the level down / up
MovesDown(i) ==
    AdaptRuleBased(engines[i], "MEDIUM", call[i].recent_performance,
                   call[i].recent_times) = "EASY"

MovesUp(i) ==
    AdaptRuleBased(engines[i], "MEDIUM", call[i].recent_performance,
                   call[i].recent_times) = "HARD"

----------------------------------------------------------------------------
(* C1 *)

\* C1: with at least one and at least min_attempts_before_change correctness
\* entries, get_next_difficulty returns the level of the reference rules
\* (first match wins) evaluated on acc = 100 * count / len and avg = mean(t).
C1_MatchesReference ==
    \A i \in DOMAIN engines :
        (/\ IsDecide(call[i])
         /\ Len(call[i].recent_performance) >= 1
         /\ Len(call[i].recent_performance) >=
                engines[i].config.min_attempts_before_change)
        => call[i].ret =
               REVERSE_MAP[ReferenceLevel(engines[i].config,
                                          Rank(call[i].current_difficulty),
                                          call[i].recent_performance,
                                          call[i].recent_times)]

----------------------------------------------------------------------------
(* C2 *)

\* C2: a call whose correctness window has fewer entries than
\* min_attempts_before_change returns current_difficulty unchanged.
C2_ShortWindowKeepsLevel ==
    \A i \in DOMAIN engines :
        (/\ IsDecide(call[i])
         /\ Len(call[i].recent_performance) <
                engines[i].config.min_attempts_before_change)
        => call[i].ret = call[i].current_difficulty

\* a short, all-correct, fast window at MEDIUM: the rules would give HARD
C2_Witness ==
    /\ IsDecide(call[1])
    /\ engines[1].config.min_attempts_before_change = 3
    /\ call[1].recent_performance = <<TRUE, TRUE>>
    /\ call[1].recent_times = <<5>>
    /\ call[1].current_difficulty = "MEDIUM"
    /\ call[1].ret = "MEDIUM"

----------------------------------------------------------------------------
(* C3 *)

\* the records are numbered 1, 2, ... and as many as attempt_count
CountedHistory ==
    \A i \in DOMAIN engines :
        /\ Len(engines[i].history) = engines[i].attempt_count
        /\ \A k \in 1..Len(engines[i].history) : engines[i].history[k].attempt = k

\* C3: every call of get_next_difficulty adds 1 to attempt_count and appends
\* one record, numbered with the new count, from the difficulty passed in, to
\* the difficulty returned; so the history is as long as the count and its
\* i-th record has number i.
C3_OneRecordPerCall ==
    [][/\ \A i \in DOMAIN engines :
              DecideStep(i) =>
                  /\ engines'[i].attempt_count = engines[i].attempt_count + 1
                  /\ Len(engines'[i].history) = Len(engines[i].history) + 1
                  /\ SubSeq(engines'[i].history, 1, Len(engines[i].history))
                         = engines[i].history
                  /\ LastEntry(i)'.attempt = engines'[i].attempt_count
                  /\ LastEntry(i)'.from = call'[i].current_difficulty
                  /\ LastEntry(i)'.to = call'[i].ret
       /\ CountedHistory']_vars

\* a call that moved the level, then a call with an empty window
C3_Witness ==
    /\ IsDecide(call[1])
    /\ call[1].recent_performance = <<>>
    /\ Len(engines[1].history) = 2
    /\ engines[1].history[1].to # engines[1].history[1].from
    /\ engines[1].history[2].to = engines[1].history[2].from
    /\ engines[1].history[2].attempt = 2

----------------------------------------------------------------------------
(* C4 *)

\* C4: the level returned is one of the three; from EASY a decision to go
\* down returns EASY and from HARD a decision to go up returns HARD.
C4_Saturates ==
    \A i \in DOMAIN engines :
        IsDecide(call[i]) =>
            /\ call[i].ret \in Levels
            /\ Rank(call[i].ret) \in 0..2
            /\ (call[i].current_difficulty = "EASY" /\ MovesDown(i))
                   => call[i].ret = "EASY"
            /\ (call[i].current_difficulty = "HARD" /\ MovesUp(i))
                   => call[i].ret = "HARD"

\* at HARD, under the first rule
C4_Witness ==
    /\ IsDecide(call[1])
    /\ call[1].current_difficulty = "HARD"
    /\ call[1].recent_performance = T3
    /\ call[1].recent_times = <<5, 5>>
    /\ MovesUp(1)
    /\ call[1].ret = "HARD"

----------------------------------------------------------------------------
(* C5 *)

\* C5: a controller whose configuration is invalid is never built, so
\* get_next_difficulty never runs on one.
C5_InvalidConfigRejected ==
    \A i \in DOMAIN engines :
        IsDecide(call[i]) => ValidConfig(engines[i].config)

----------------------------------------------------------------------------
(* C6 *)

\* C6: with an empty correctness window, whatever the times, the call returns
\* current_difficulty, counts as an attempt and records accuracy 0 and
\* avg_time 0.
C6_EmptyWindowRecordsZeros ==
    \A i \in DOMAIN engines :
        (IsDecide(call[i]) /\ call[i].recent_performance = <<>>)
        => /\ call[i].ret = call[i].current_difficulty
           /\ engines[i].attempt_count = call[i].before + 1
           /\ LastEntry(i).accuracy = ZeroAccuracy
           /\ LastEntry(i).avg_time = ZeroTime

\* C6, amended: with an empty correctness window the call returns
\* current_difficulty, counts as an attempt and records accuracy 0; the
\* avg_time it records is 0 when the time window is empty too and the mean of
\* the times supplied when it is not.
C6_EmptyWindowRecord ==
    \A i \in DOMAIN engines :
        (IsDecide(call[i]) /\ call[i].recent_performance = <<>>)
        => /\ call[i].ret = call[i].current_difficulty
           /\ engines[i].attempt_count = call[i].before + 1
           /\ LastEntry(i).attempt = engines[i].attempt_count
           /\ LastEntry(i).accuracy = ZeroAccuracy
           /\ IF call[i].recent_times = <<>>
              THEN LastEntry(i).avg_time = ZeroTime
              ELSE /\ LastEntry(i).avg_time.den > 0
                   /\ LastEntry(i).avg_time.num * Len(call[i].recent_times)
                          = Sum(call[i].recent_times) * LastEntry(i).avg_time.den

\* an empty correctness window with times at HARD
C6_Witness ==
    /\ IsDecide(call[1])
    /\ call[1].recent_performance = <<>>
    /\ call[1].recent_times = <<5, 10>>
    /\ call[1].current_difficulty = "HARD"
    /\ call[1].ret = "HARD"
    /\ LastEntry(1).avg_time # ZeroTime

----------------------------------------------------------------------------
(* C7 *)

\* C7: reset_history leaves an empty history, a count of 0 and the
\* configuration it found; a second reset changes nothing; the first
\* get_next_difficulty after a reset appends record number 1.
C7_Reset ==
    [][\A i \in DOMAIN engines :
           /\ (call'[i].op = "reset_history" /\ call'[i] # call[i])
                  => /\ engines'[i].history = <<>>
                     /\ engines'[i].attempt_count = 0
                     /\ engines'[i].config = engines[i].config
           /\ (call[i].op = "reset_history" /\ call'[i].op = "reset_history")
                  => engines'[i] = engines[i]
           /\ (call[i].op = "reset_history" /\ DecideStep(i))
                  => /\ Len(engines'[i].history) = 1
                     /\ LastEntry(i)'.attempt = 1]_vars

\* a reset of a controller that had decided MaxAttempts times
C7_Witness ==
    /\ call[1].op = "reset_history"
    /\ call[1].before = MaxAttempts
    /\ engines[1].history = <<>>
    /\ engines[1].attempt_count = 0

----------------------------------------------------------------------------
(* C8 *)

\* C8: two controllers with the same configuration, called with the same
\* arguments, return the same difficulty and record the same accuracy and
\* avg_time, whatever their counts and histories.
C8_Deterministic ==
    \A i, j \in DOMAIN engines :
        (/\ IsDecide(call[i]) /\ IsDecide(call[j])
         /\ engines[i].config = engines[j].config
         /\ call[i].current_difficulty = call[j].current_difficulty
         /\ call[i].recent_performance = call[j].recent_performance
         /\ call[i].recent_times = call[j].recent_times)
        => /\ call[i].ret = call[j].ret
           /\ LastEntry(i).to = LastEntry(j).to
           /\ LastEntry(i).accuracy = LastEntry(j).accuracy
           /\ LastEntry(i).avg_time = LastEntry(j).avg_time

\* the same call, moving the level, on controllers with different counts and
\* histories
C8_Witness ==
    /\ IsDecide(call[1]) /\ IsDecide(call[2])
    /\ <<call[1].current_difficulty, call[1].recent_performance,
         call[1].recent_times>>
           = <<call[2].current_difficulty, call[2].recent_performance,
               call[2].recent_times>>
    /\ call[1].ret # call[1].current_difficulty
    /\ engines[1].attempt_count # engines[2].attempt_count
    /\ engines[1].history[1] # engines[2].history[1]

----------------------------------------------------------------------------
(* C9 *)

\* C9: the controller's records change only when get_next_difficulty appends
\* one at the end or reset_history clears them; get_adaptation_history changes
\* nothing and nothing done with the list it returns changes the records.
C9_OnlyAppendAndReset ==
    [][\A i \in DOMAIN engines :
           \/ engines'[i] = engines[i]
           \/ /\ DecideStep(i)
              /\ Len(engines'[i].history) = Len(engines[i].history) + 1
              /\ SubSeq(engines'[i].history, 1, Len(engines[i].history))
                     = engines[i].history
           \/ /\ call'[i].op = "reset_history"
              /\ engines'[i].history = <<>>]_vars

----------------------------------------------------------------------------
(* C10 *)

\* C10: at the top of the main loop the tracker's records, the controller's
\* count and its history are equally many, at most puzzle_count, which is at
\* most 10; the two windows of the latest decision are equally long, between
\* 1 and 5; that decision moved the difficulty by at most one level, to the
\* session's current difficulty.
C10_Session ==
    run.pc = "loop" =>
        /\ Len(tracker.records) = engines[1].attempt_count
        /\ engines[1].attempt_count = Len(engines[1].history)
        /\ Len(engines[1].history) <= run.puzzle_count
        /\ run.puzzle_count <= 10
        /\ (tracker.records = <<>>) = (call[1].op = "none")
        /\ IsDecide(call[1]) =>
               /\ Len(call[1].recent_performance) = Len(call[1].recent_times)
               /\ Len(call[1].recent_performance) \in 1..5
               /\ Len(call[1].recent_performance) = Min(Len(tracker.records), 5)
               /\ Rank(call[1].ret) - Rank(call[1].current_difficulty)
                      \in {-1, 0, 1}
               /\ run.current_difficulty = call[1].ret

\* six answers logged, some questions skipped, the window cut to five
C10_Witness ==
    /\ run.pc = "loop"
    /\ Len(tracker.records) = 6
    /\ run.puzzle_count > 6
    /\ Len(call[1].recent_performance) = 5
    /\ call[1].ret # call[1].current_difficulty

====
